---- MODULE Spec2Model ----
(***************************************************************************)
(* Model of the agno-api team cache, hierarchy update and input            *)
(* normalizer (app/services/agent_manager.py, app/routes/agent.py,         *)
(* app/main.py, app/models/instance.py).                                   *)
(*                                                                         *)
(* Handlers are asyncio coroutines on one event loop: a handler runs       *)
(* atomically from one await to the next.  Every storage await is split    *)
(* into the storage operation itself and the later resumption of the       *)
(* coroutine, so other coroutines may run before the operation, and        *)
(* between the operation and the resumption.                               *)
(*                                                                         *)
(* Values that arrive as JSON are tagged records: [t |-> "str", v |-> cs]  *)
(* (cs a sequence of one-character strings), [t |-> "null"],               *)
(* [t |-> "int", v |-> n], [t |-> "list", v |-> seq], [t |-> "dict",       *)
(* v |-> function from field names to values]; a dict whose keys are data  *)
(* is [t |-> "dict", items |-> sequence of <<key text, value>>] in         *)
(* insertion order; Python objects are                                     *)
(* [t |-> "ModelProvider", v |-> member name], [t |-> "ToolType", ...],    *)
(* [t |-> "ToolConfig", type |-> ..., config |-> ...].                     *)
(***************************************************************************)
EXTENDS Integers, Sequences, FiniteSets, TLC

\* ---------------------------------------------------------------- bounds
NProcs == 2
MaxReqs == 3
MaxMsgs == 1
MaxTools == 2

\* ------------------------------------------------------- value encoding
NullV == [t |-> "null"]
StrV(cs) == [t |-> "str", v |-> cs]
IntV(n) == [t |-> "int", v |-> n]
ListV(s) == [t |-> "list", v |-> s]
DictV(f) == [t |-> "dict", v |-> f]
\* a dict given by its (key text, value) items in insertion order
ObjV(items) == [t |-> "dict", items |-> items]
IsObj(x) == x.t = "dict" /\ "items" \in DOMAIN x
EnumV(cls, name) == [t |-> cls, v |-> name]

Ok(x) == [ok |-> TRUE, val |-> x]
Raise(e) == [ok |-> FALSE, err |-> e]

\* Python truthiness of a value (`not x`, `if x:`)
Truthy(x) ==
    CASE x.t = "null" -> FALSE
      [] x.t = "str" -> x.v # <<>>
      [] x.t = "int" -> x.v # 0
      [] x.t = "list" -> x.v # <<>>
      [] x.t = "dict" -> (IF IsObj(x) THEN x.items # <<>> ELSE DOMAIN x.v # {})
      [] OTHER -> TRUE

\* dict.get(k, default)
DictGet(d, k, default) == IF k \in DOMAIN d THEN d[k] ELSE default

\* d[k] = x
DictSet(d, k, x) == [j \in DOMAIN d \cup {k} |-> IF j = k THEN x ELSE d[j]]

UpperLetters == <<"A","B","C","D","E","F","G","H","I","J","K","L","M",
                  "N","O","P","Q","R","S","T","U","V","W","X","Y","Z">>
LowerLetters == <<"a","b","c","d","e","f","g","h","i","j","k","l","m",
                  "n","o","p","q","r","s","t","u","v","w","x","y","z">>

LowerChar(c) ==
    IF \E i \in 1..26 : UpperLetters[i] = c
    THEN LowerLetters[CHOOSE i \in 1..26 : UpperLetters[i] = c]
    ELSE c

UpperChar(c) ==
    IF \E i \in 1..26 : LowerLetters[i] = c
    THEN UpperLetters[CHOOSE i \in 1..26 : LowerLetters[i] = c]
    ELSE c

\* str.lower() and str.upper() on ASCII text
StrLower(cs) == [i \in 1..Len(cs) |-> LowerChar(cs[i])]

\* StrUpper that leaves the text as spelled
StrUpperAsSpelled(cs) == cs

StrUpper(cs) == [i \in 1..Len(cs) |-> UpperChar(cs[i])]

\* ------------------------------------------------------------- the enums
\* class ModelProvider(str, Enum): member name -> value
ModelProvider ==
    [OPENAI |-> <<"o","p","e","n","a","i">>,
     CLAUDE |-> <<"c","l","a","u","d","e">>,
     GEMINI |-> <<"g","e","m","i","n","i">>,
     GROQ   |-> <<"g","r","o","q">>]

\* class ToolType(str, Enum): member name -> value
ToolType ==
    [DUCKDUCKGO |-> <<"D","U","C","K","D","U","C","K","G","O">>,
     YFINANCE   |-> <<"Y","F","I","N","A","N","C","E">>]

\* ModelProvider(value): lookup by value, ValueError when no member has it
ModelProviderByValue(cs) ==
    IF \E m \in DOMAIN ModelProvider : ModelProvider[m] = cs
    THEN Ok(EnumV("ModelProvider", CHOOSE m \in DOMAIN ModelProvider : ModelProvider[m] = cs))
    ELSE Raise("ValueError")

\* ModelProvider.<attr>: class attribute access, AttributeError when the
\* class has no member (or attribute) of that exact name
ModelProviderAttr(name) ==
    IF name \in DOMAIN ModelProvider
    THEN Ok(EnumV("ModelProvider", name))
    ELSE Raise("AttributeError")

\* ToolType[name]: lookup by member name, KeyError when absent.  The member
\* names are spelled like their values, so the name is compared as text.
ToolTypeByName(cs) ==
    IF \E m \in DOMAIN ToolType : ToolType[m] = cs
    THEN Ok(EnumV("ToolType", CHOOSE m \in DOMAIN ToolType : ToolType[m] = cs))
    ELSE Raise("KeyError")

DefaultModelId == <<"g","e","m","i","n","i","-","1",".","5","-","f","l","a","s","h">>

\* ToolConfig(**kw): type must be a ToolType, config a dict or None
NewToolConfig(kw) ==
    LET ty == DictGet(kw, "type", NullV)
        cf == DictGet(kw, "config", NullV)
    IN IF ty.t = "ToolType" /\ cf.t \in {"null", "dict"}
       THEN Ok([t |-> "ToolConfig", type |-> ty.v, config |-> cf])
       ELSE Raise("ValidationError")

\* isinstance(x, str): both enums derive from str, so their members count
IsStr(x) == x.t \in {"str", "ModelProvider", "ToolType"}

\* the text of a str value (an enum member's text is its value)
StrOf(x) ==
    CASE x.t = "ModelProvider" -> ModelProvider[x.v]
      [] x.t = "ToolType" -> ToolType[x.v]
      [] OTHER -> x.v

\* --------------------------------------------------------- normalize_agent
\* the provider branch of normalize_agent: the value stored under
\* "model_provider", or the exception that escapes
NormalizeProvider(agent_data) ==
    LET provider == DictGet(agent_data, "model_provider", StrV(ModelProvider.GEMINI))
    IN IF IsStr(provider)
       THEN LET r == ModelProviderByValue(StrLower(StrOf(provider)))
            IN IF r.ok THEN r ELSE ModelProviderAttr("gemini")
       ELSE IF provider.t = "ModelProvider"
            THEN Ok(provider)
            ELSE ModelProviderAttr("gemini")

\* one pass of the tools loop body: the ToolConfigs appended for entry t
\* (none or one), or the exception that escapes
NormalizeTool(t) ==
    IF IsStr(t)
    THEN LET r == ToolTypeByName(StrUpper(StrOf(t)))
         IN IF r.ok THEN LET c == NewToolConfig([type |-> r.val])
                         IN IF c.ok THEN Ok(<<c.val>>) ELSE c
            ELSE Ok(<<>>)
    ELSE IF t.t = "dict"
    THEN LET t_type == DictGet(t.v, "type", NullV)
         IN IF IsStr(t_type)
            THEN LET r == ToolTypeByName(StrUpper(StrOf(t_type)))
                 IN IF r.ok
                    THEN LET c == NewToolConfig(DictSet(t.v, "type", r.val))
                         IN IF c.ok THEN Ok(<<c.val>>) ELSE c
                    ELSE Ok(<<>>)
            ELSE IF t_type.t = "ToolType"
                 THEN LET c == NewToolConfig(t.v)
                      IN IF c.ok THEN Ok(<<c.val>>) ELSE c
                 ELSE Ok(<<>>)
    ELSE IF t.t = "ToolConfig"
    THEN Ok(<<t>>)
    ELSE Ok(<<>>)

\* the tools loop over the items of the iterable, in order
RECURSIVE NormalizeToolItems(_)
NormalizeToolItems(items) ==
    IF items = <<>>
    THEN Ok(<<>>)
    ELSE LET h == NormalizeTool(Head(items))
         IN IF ~h.ok THEN h
            ELSE LET r == NormalizeToolItems(Tail(items))
                 IN IF ~r.ok THEN r ELSE Ok(h.val \o r.val)

\* `for t in tools`: a list yields its entries, a str (an enum member
\* included) its characters, a dict its keys in insertion order, and None
\* or a number is not iterable
IterItems(tools) ==
    CASE tools.t = "list" -> Ok(tools.v)
      [] IsStr(tools) ->
           Ok([i \in 1..Len(StrOf(tools)) |-> StrV(<<StrOf(tools)[i]>>)])
      [] IsObj(tools) ->
           Ok([i \in 1..Len(tools.items) |-> StrV(tools.items[i][1])])
      [] OTHER -> Raise("TypeError")

\* normalize_agent(agent_data); uuid4 is the value uuid.uuid4() would return
normalize_agent(agent_data, uuid4) ==
    LET d1 == IF ~Truthy(DictGet(agent_data, "agent_id", NullV))
              THEN DictSet(agent_data, "agent_id", StrV(uuid4))
              ELSE agent_data
        p == NormalizeProvider(d1)
    IN IF ~p.ok THEN p
       ELSE
       LET d2 == DictSet(d1, "model_provider", p.val)
           d3 == IF ~Truthy(DictGet(d2, "model_id", NullV))
                 THEN DictSet(d2, "model_id", StrV(DefaultModelId))
                 ELSE d2
           it == IterItems(DictGet(d3, "tools", ListV(<<>>)))
       IN IF ~it.ok THEN it
          ELSE LET ts == NormalizeToolItems(it.val)
               IN IF ~ts.ok THEN ts
                  ELSE Ok(DictSet(d3, "tools", ListV(ts.val)))

\* HierarchicalAgentConfig(**d): name and role are required strings,
\* agent_id and model_id strings, parent_id an optional string; unknown
\* keys are ignored
IsPlainStr(x) == x.t = "str"

NewHierarchicalAgentConfig(d) ==
    IF /\ "name" \in DOMAIN d /\ IsPlainStr(d["name"])
       /\ "role" \in DOMAIN d /\ IsPlainStr(d["role"])
       /\ ("agent_id" \in DOMAIN d => IsPlainStr(d["agent_id"]))
       /\ ("model_id" \in DOMAIN d => IsPlainStr(d["model_id"]))
       /\ ("model_provider" \in DOMAIN d => d["model_provider"].t = "ModelProvider")
       /\ ("parent_id" \in DOMAIN d => d["parent_id"].t \in {"str", "null"})
       /\ ("tools" \in DOMAIN d =>
              /\ d["tools"].t = "list"
              /\ \A i \in 1..Len(d["tools"].v) : d["tools"].v[i].t = "ToolConfig")
    THEN Ok([agent_id |-> d["agent_id"].v,
             name |-> d["name"].v,
             role |-> d["role"].v,
             model_provider |-> DictGet(d, "model_provider", EnumV("ModelProvider", "GEMINI")).v,
             model_id |-> DictGet(d, "model_id", StrV(DefaultModelId)).v,
             tools |-> DictGet(d, "tools", ListV(<<>>)).v,
             parent_id |-> DictGet(d, "parent_id", NullV)])
    ELSE Raise("ValidationError")

\* str(uuid.uuid4()): the n-th identifier drawn, as text
Uuid4(n) == <<"uuid-" \o ToString(n)>>

\* whether normalize_agent draws a uuid4 for agent record a, and the
\* number of draws made once it has run
DrawsUuid(a) == ~Truthy(DictGet(a, "agent_id", NullV))
UuidsAfter(a, n) == IF DrawsUuid(a) THEN n + 1 ELSE n

\* HierarchicalAgentConfig(**r) for the result r of normalize_agent, or
\* the exception normalize_agent raised
ConfigOf(r) == IF r.ok THEN NewHierarchicalAgentConfig(r.val) ELSE r

\* HierarchicalAgentConfig(**normalize_agent(a)), n uuid4 draws made before
NormalizeOne(a, n) == ConfigOf(normalize_agent(a, Uuid4(UuidsAfter(a, n))))

\* the list comprehension's result with x put in front of the rest's
Prepend(x, r) ==
    IF r.ok THEN [ok |-> TRUE, val |-> <<x>> \o r.val, n |-> r.n] ELSE r

\* [HierarchicalAgentConfig(**normalize_agent(a)) for a in request.agents],
\* left to right; n counts the uuid4 draws made so far
RECURSIVE NormalizeAgents(_, _)
NormalizeRest(h, n1, rest) ==
    IF h.ok
    THEN Prepend(h.val, NormalizeAgents(rest, n1))
    ELSE [ok |-> FALSE, err |-> h.err, n |-> n1]

NormalizeAgents(raw, n) ==
    IF raw = <<>>
    THEN [ok |-> TRUE, val |-> <<>>, n |-> n]
    ELSE NormalizeRest(NormalizeOne(Head(raw).v, n), UuidsAfter(Head(raw).v, n), Tail(raw))

\* --------------------------------------------------------- AgentInstance
\* the default of AgentInstance.router_instructions (text that is only
\* stored and compared is kept as one chunk)
DefaultRouterInstructions ==
    <<"Voce e o coordenador de uma equipe de especialistas. [...] Se a solicitacao for uma continuacao da conversa, leve o historico em consideracao.">>

\* AgentInstance(**kw) at time now: user_id and instance_id are required,
\* router_instructions must be a str and agents a list when given (None is
\* not accepted for either), created_at/updated_at default to utcnow().
\* id is None (0) until the document is inserted; ver is a history field:
\* the number of hierarchy updates saved into the document.
NewAgentInstance(kw, now) ==
    IF /\ "user_id" \in DOMAIN kw /\ "instance_id" \in DOMAIN kw
       /\ ("router_instructions" \in DOMAIN kw => kw["router_instructions"].t = "str")
       /\ ("agents" \in DOMAIN kw => kw["agents"].t = "list")
    THEN Ok([t |-> "AgentInstance",
             id |-> 0,
             user_id |-> kw["user_id"],
             instance_id |-> kw["instance_id"],
             router_instructions |->
                 DictGet(kw, "router_instructions", StrV(DefaultRouterInstructions)).v,
             agents |-> DictGet(kw, "agents", ListV(<<>>)).v,
             created_at |-> now,
             updated_at |-> now,
             ver |-> 0])
    ELSE Raise("ValidationError")

\* the else-branch of update_instance_hierarchy: apply hierarchy_updates to
\* the loaded instance
ApplyUpdates(instance, hierarchy_updates) ==
    LET i1 == IF "agents" \in DOMAIN hierarchy_updates
                 /\ hierarchy_updates["agents"].t # "null"
              THEN [instance EXCEPT !.agents = hierarchy_updates["agents"].v]
              ELSE instance
        ri == DictGet(hierarchy_updates, "router_instructions", NullV)
    IN IF ri.t # "null"
       THEN [i1 EXCEPT !.router_instructions = ri.v]
       ELSE i1

\* ---------------------------------------------------------- AgentManager
\* AgentManager._get_cache_key
CacheKey(user_id, instance_id) == user_id \o <<":">> \o instance_id

\* AgentManager._create_model
CreateModel(provider, model_id) ==
    CASE provider = "OPENAI" -> [cls |-> "OpenAIChat", id |-> model_id]
      [] provider = "CLAUDE" -> [cls |-> "Claude", id |-> model_id]
      [] provider = "GEMINI" -> [cls |-> "Gemini", id |-> model_id]
      [] provider = "GROQ" -> [cls |-> "Groq", id |-> model_id]
      [] OTHER -> [cls |-> "Gemini", id |-> DefaultModelId]

\* {**default_params, **params}
MergeParams(defaults, params) ==
    [k \in DOMAIN defaults \cup DOMAIN params |->
        IF k \in DOMAIN params THEN params[k] ELSE defaults[k]]

YFinanceDefaults ==
    [stock_price |-> TRUE, analyst_recommendations |-> TRUE,
     company_info |-> TRUE, company_news |-> TRUE]

\* the empty dict
EmptyDict == [k \in {} |-> TRUE]

\* CreateTools without the YFINANCE branch
CreateToolsOnlyDuckDuckGo(tool_configs) ==
    LET kept == SelectSeq(tool_configs, LAMBDA tc : tc.type = "DUCKDUCKGO")
    IN [i \in DOMAIN kept |->
           [cls |-> "DuckDuckGoTools",
            params |-> IF kept[i].config.t = "dict" THEN kept[i].config.v ELSE EmptyDict]]

\* AgentManager._create_tools
RECURSIVE CreateTools(_)
CreateTools(tool_configs) ==
    IF tool_configs = <<>> THEN <<>>
    ELSE LET tc == Head(tool_configs)
             params == IF tc.config.t = "dict" /\ DOMAIN tc.config.v # {}
                       THEN tc.config.v ELSE EmptyDict
             made == CASE tc.type = "DUCKDUCKGO" ->
                            <<[cls |-> "DuckDuckGoTools", params |-> params]>>
                       [] tc.type = "YFINANCE" ->
                            <<[cls |-> "YFinanceTools",
                               params |-> MergeParams(YFinanceDefaults, params)]>>
                       [] OTHER -> <<>>
         IN made \o CreateTools(Tail(tool_configs))

\* the members loop of get_or_create_team
CreateMembers(agents) ==
    [i \in 1..Len(agents) |->
        [name |-> agents[i].name,
         role |-> agents[i].role,
         model |-> CreateModel(agents[i].model_provider, agents[i].model_id),
         tools |-> CreateTools(agents[i].tools)]]

\* Team(...) as built by get_or_create_team from the instance snapshot.
\* session_id starts as None.  ver and fresh are history fields: the
\* version of the snapshot the team was assembled from, and whether the
\* building call began when the key had neither a config nor a cache entry.
NewTeam(instance, fresh) ==
    [user_id |-> instance.user_id,
     instance_id |-> instance.instance_id,
     members |-> CreateMembers(instance.agents),
     instructions |-> instance.router_instructions,
     session_id |-> NullV,
     ver |-> instance.ver,
     fresh |-> fresh]

\* Evict that leaves the entry in place
EvictNothing(cache, key) == cache

\* del self.teams_cache[cache_key] when present (update_instance_hierarchy)
Evict(cache, key) == [k \in DOMAIN cache \ {key} |-> cache[k]]

\* self.teams_cache[cache_key] = team
CachePut(cache, key, team) ==
    [k \in DOMAIN cache \cup {key} |-> IF k = key THEN team ELSE cache[k]]

\* SetSession that assigns only when the team has no session id yet
SetSessionOnce(heap, t, sid) ==
    IF heap[t].session_id = NullV THEN [heap EXCEPT ![t].session_id = sid] ELSE heap

\* team.session_id = sid, on the team object at address t of the heap
SetSession(heap, t, sid) == [heap EXCEPT ![t].session_id = sid]

\* ------------------------------------------------------------ the inputs
U1 == <<"u","1">>
I1 == <<"i","1">>
Tenants == {<<U1, I1>>}
\* two distinct pairs whose ids contain the ':' separator
ColonTenants == {<<<<"a",":","b">>, <<"c">>>>, <<<<"a">>, <<"b",":","c">>>>}
WhatsappNumbers == {<<"w","1">>, <<"w","2">>}
Instructions == {<<"r","1">>}

ToolYF == StrV(<<"y","f","i","n","a","n","c","e">>)
ToolDDG == DictV([type |-> StrV(<<"D","u","c","k","D","u","c","k","G","o">>)])
ToolFoo == StrV(<<"F","O","O","B","A","R">>)

AgentA ==
    DictV([agent_id |-> StrV(<<"a">>), name |-> StrV(<<"A">>), role |-> StrV(<<"r","a">>),
           model_provider |-> StrV(<<"O","p","e","n","A","I">>),
           tools |-> ListV(<<ToolYF>>)])
AgentB ==
    DictV([name |-> StrV(<<"B">>), role |-> StrV(<<"r","b">>),
           tools |-> ListV(<<ToolDDG, ToolFoo>>)])
AgentBadProvider ==
    DictV([agent_id |-> StrV(<<"c">>), name |-> StrV(<<"C">>), role |-> StrV(<<"r","c">>),
           model_provider |-> StrV(<<"m","i","s","t","r","a","l">>)])

\* an agent entry without a role
AgentNoRole ==
    DictV([agent_id |-> StrV(<<"d">>), name |-> StrV(<<"D">>)])
\* an agent entry with a tool of a known kind whose config is not a mapping
AgentBadTool ==
    DictV([agent_id |-> StrV(<<"e">>), name |-> StrV(<<"E">>), role |-> StrV(<<"r","e">>),
           tools |-> ListV(<<ToolYF,
                             DictV([type |-> StrV(<<"y","f","i","n","a","n","c","e">>),
                                    config |-> StrV(<<"x">>)])>>)])

\* a field the request leaves out
Absent == [t |-> "absent"]

\* the dict with the fields of f that are not left out
Build(f) == [k \in {j \in DOMAIN f : f[j] # Absent} |-> f[k]]

\* model_provider values given to normalize_agent
ProviderInputs ==
    {Absent, NullV, IntV(7), StrV(<<>>),
     StrV(<<"g","e","m","i","n","i">>), StrV(<<"G","E","M","I","N","I">>),
     StrV(<<"G","e","m","i","n","i">>),
     StrV(<<"o","p","e","n","a","i">>), StrV(<<"O","p","e","n","A","I">>),
     StrV(<<"c","l","a","u","d","e">>), StrV(<<"C","L","A","U","D","E">>),
     StrV(<<"g","r","o","q">>), StrV(<<"G","r","o","Q">>),
     StrV(<<"m","i","s","t","r","a","l">>), StrV(<<"g","e","m","i","n","i"," ">>),
     EnumV("ModelProvider", "GEMINI"), EnumV("ModelProvider", "OPENAI"),
     EnumV("ModelProvider", "CLAUDE"), EnumV("ModelProvider", "GROQ")}

\* entries of a tools list given to normalize_agent
ToolEntries ==
    {ToolYF, ToolDDG, ToolFoo,
     StrV(<<"Y","F","I","N","A","N","C","E">>),
     DictV([type |-> StrV(<<"y","f","i","n","a","n","c","e">>),
            config |-> DictV([stock_price |-> FALSE])]),
     DictV([type |-> StrV(<<"y","f","i","n","a","n","c","e">>),
            config |-> StrV(<<"x">>)]),
     DictV([type |-> EnumV("ToolType", "DUCKDUCKGO")]),
     DictV([type |-> StrV(<<"f","o","o">>)]),
     DictV([config |-> NullV]),
     [t |-> "ToolConfig", type |-> "YFINANCE", config |-> NullV],
     IntV(3)}

RECURSIVE SeqsUpTo(_, _)
SeqsUpTo(S, n) ==
    IF n = 0 THEN {<<>>}
    ELSE LET shorter == SeqsUpTo(S, n - 1)
         IN shorter \cup {Append(q, x) : q \in shorter, x \in S}

\* keys of a tools value given as a JSON object
ToolKeys ==
    {<<"y","f","i","n","a","n","c","e">>, <<"F","O","O","B","A","R">>,
     <<"D","u","c","k","D","u","c","k","G","o">>}

\* tools given as a JSON object: distinct keys, in every order
ToolObjects ==
    {ObjV([i \in DOMAIN q |-> <<q[i], IntV(1)>>]) :
        q \in {r \in SeqsUpTo(ToolKeys, MaxTools) :
                  \A i, j \in DOMAIN r : i # j => r[i] # r[j]}}

ToolsInputs ==
    {Absent, NullV, StrV(<<"y","f">>)}
    \cup {ListV(q) : q \in SeqsUpTo(ToolEntries, MaxTools)}
    \cup ToolObjects

\* the agent records given to normalize_agent
RawAgentInputs ==
    {Build([agent_id |-> aid, name |-> StrV(<<"N">>), role |-> StrV(<<"r">>),
            model_provider |-> prov, tools |-> tools]) :
        aid \in {Absent, StrV(<<>>), StrV(<<"a">>)},
        prov \in ProviderInputs,
        tools \in ToolsInputs}
    \cup {Build([agent_id |-> StrV(<<"a">>), name |-> nm, role |-> rl]) :
             nm \in {Absent, NullV, StrV(<<"N">>)}, rl \in {Absent, StrV(<<"r">>)}}

\* letter-case variants of a name: as spelled, lower case, and alternating
CaseVariants(cs) ==
    {cs, StrLower(cs),
     [i \in 1..Len(cs) |-> IF i % 2 = 1 THEN UpperChar(cs[i]) ELSE LowerChar(cs[i])]}

\* the ways a tools entry can name kind K with no config: a bare string, a
\* record with only a type (text or member), a ToolConfig
KindForms(K) ==
    {StrV(v) : v \in CaseVariants(ToolType[K])}
    \cup {DictV([type |-> StrV(v)]) : v \in CaseVariants(ToolType[K])}
    \cup {DictV([type |-> EnumV("ToolType", K)]),
          [t |-> "ToolConfig", type |-> K, config |-> NullV]}

AllKindForms == UNION {KindForms(K) : K \in DOMAIN ToolType}

\* agent records whose tools name supported kinds in these forms
KindFormInputs ==
    {[agent_id |-> StrV(<<"a">>), name |-> StrV(<<"N">>), role |-> StrV(<<"r">>),
      tools |-> ListV(q)] : q \in SeqsUpTo(AllKindForms, MaxTools)}

\* the values of HierarchyUpdateRequest.agents the model draws
AgentLists ==
    {NullV, ListV(<<>>), ListV(<<AgentA>>), ListV(<<AgentBadProvider>>),
     ListV(<<AgentA, AgentNoRole>>), ListV(<<AgentBadTool>>)}

\* a config persisted by an earlier run of the service
StoredAgent ==
    [agent_id |-> <<"s">>, name |-> <<"S">>, role |-> <<"r","s">>,
     model_provider |-> "GROQ", model_id |-> <<"l","l","a","m","a">>,
     tools |-> <<[t |-> "ToolConfig", type |-> "YFINANCE",
                  config |-> DictV([stock_price |-> FALSE])],
                 [t |-> "ToolConfig", type |-> "DUCKDUCKGO", config |-> NullV]>>,
     parent_id |-> NullV]
StoredAgent2 ==
    [agent_id |-> <<"t">>, name |-> <<"T">>, role |-> <<"r","t">>,
     model_provider |-> "OPENAI", model_id |-> <<"g","p","t">>,
     tools |-> <<[t |-> "ToolConfig", type |-> "DUCKDUCKGO", config |-> NullV]>>,
     parent_id |-> NullV]

StoredInstance(pr) ==
    [t |-> "AgentInstance", id |-> 1, user_id |-> pr[1], instance_id |-> pr[2],
     router_instructions |-> <<"r","0">>, agents |-> <<StoredAgent, StoredAgent2>>,
     created_at |-> 0, updated_at |-> 0, ver |-> 0]

\* -------------------------------------------------------------- the state
VARIABLES
    pairs,        \* the (user_id, instance_id) pairs in use
    store,        \* agent_instances collection: pair -> document or None
    teams_cache,  \* AgentManager.teams_cache: cache key -> team address
    teams,        \* heap of Team objects; a team's address is its identity
    pc,           \* position of each request coroutine (slot)
    nreq,         \* number of requests that have arrived
    req,          \* the request each coroutine serves
    loc,          \* locals of each coroutine (and history fields; called_at
                  \* is the clock reading when the update call was made)
    clock,        \* datetime.utcnow(), a logical clock
    uuid_ctr,     \* number of uuid4() draws so far
    done_ver,     \* history: highest version written by a returned update
    last_ret      \* history: the teams get_or_create_team has returned
                  \* for a pair since the last update of the pair returned

vars == <<pairs, store, teams_cache, teams, pc, nreq, req, loc, clock, uuid_ctr,
          done_ver, last_ret>>

Procs == 1..NProcs

LocInit ==
    [instance |-> NullV, loaded |-> NullV, updates |-> NullV, team |-> 0,
     need |-> 0, expect |-> {}, fresh |-> FALSE, runs |-> 0,
     run_session |-> NullV, run_stale |-> FALSE, prev_session |-> NullV, resp |-> NullV,
     had_entry |-> FALSE, err |-> "none", called_at |-> 0]

PairOf(p) == <<req[p].user_id, req[p].instance_id>>
KeyOf(p) == CacheKey(req[p].user_id, req[p].instance_id)

Max(a, b) == IF a >= b THEN a ELSE b

\* A request arrives and is served by the lowest free slot (slots are
\* interchangeable); at most MaxReqs requests arrive.
Arrives(p) ==
    /\ pc[p] = "idle"
    /\ \A q \in Procs : q < p => pc[q] # "idle"
    /\ nreq < MaxReqs
    /\ nreq' = nreq + 1

Init ==
    /\ pairs = Tenants
    /\ store \in [Tenants -> {NullV}] \cup {[pr \in Tenants |-> StoredInstance(pr)]}
    /\ teams_cache = EmptyDict
    /\ teams = <<>>
    /\ pc = [p \in Procs |-> "idle"]
    /\ nreq = 0
    /\ req = [p \in Procs |-> [kind |-> "none"]]
    /\ loc = [p \in Procs |-> LocInit]
    /\ clock = 1
    /\ uuid_ctr = 0
    /\ done_ver = [pr \in Tenants |-> 0]
    /\ last_ret = [pr \in Tenants |-> {}]

\* the service with the pairs of ColonTenants as its tenants
ColonInit ==
    /\ pairs = ColonTenants
    /\ store \in [ColonTenants -> {NullV}] \cup {[pr \in ColonTenants |-> StoredInstance(pr)]}
    /\ teams_cache = EmptyDict
    /\ teams = <<>>
    /\ pc = [p \in Procs |-> "idle"]
    /\ nreq = 0
    /\ req = [p \in Procs |-> [kind |-> "none"]]
    /\ loc = [p \in Procs |-> LocInit]
    /\ clock = 1
    /\ uuid_ctr = 0
    /\ done_ver = [pr \in ColonTenants |-> 0]
    /\ last_ret = [pr \in ColonTenants |-> {}]

\* ------------------------------------------- chat and websocket handlers
\* f"{user_id}-{instance_id}-playground"
PlaygroundSession(user_id, instance_id) ==
    user_id \o <<"-">> \o instance_id \o <<"-playground">>

\* the session id the handler of request rq assigns to its team
SessionFor(rq) ==
    IF rq.kind = "chat"
    THEN StrV(rq.whatsapp_number)
    ELSE StrV(PlaygroundSession(rq.user_id, rq.instance_id))

\* the handler's `except Exception` after a call it made raised e
HandlerFails(p, e) ==
    /\ loc' = [loc EXCEPT ![p].err = e]
    /\ pc' = [pc EXCEPT ![p] = "failed"]

\* ChatRunRaises that also drops the key's cache entry
ChatRunRaisesEvicts(p, rq, l, cache) ==
    /\ loc' = [loc EXCEPT ![p] = [l EXCEPT !.runs = 1, !.err = "RunError"]]
    /\ pc' = [pc EXCEPT ![p] = "failed"]
    /\ teams_cache' = Evict(cache, CacheKey(rq.user_id, rq.instance_id))

\* team.run raises inside chat_with_agent: the `except Exception` answers
\* HTTP 500; cache is the teams cache as get_or_create_team left it
ChatRunRaises(p, rq, l, cache) ==
    /\ loc' = [loc EXCEPT ![p] = [l EXCEPT !.runs = 1, !.err = "RunError"]]
    /\ pc' = [pc EXCEPT ![p] = "failed"]
    /\ teams_cache' = cache

\* team.run returns inside chat_with_agent: the handler answers with the
\* team's session id; heap1 is the heap after the session assignment
ChatAnswers(p, rq, t, heap1, l, cache) ==
    /\ teams_cache' = cache
    /\ loc' = [loc EXCEPT ![p] =
                   [l EXCEPT !.instance = NullV, !.loaded = NullV,
                             !.runs = 1,
                             !.run_session = heap1[t].session_id,
                             !.run_stale =
                                 (heap1[t].ver < done_ver[<<rq.user_id, rq.instance_id>>]),
                             !.resp = [session_id |-> heap1[t].session_id,
                                       success |-> TRUE]]]
    /\ pc' = [pc EXCEPT ![p] = "done"]

\* The caller's code from the return of get_or_create_team (team t of
\* heap, the teams cache being cache) to its next await.  chat_with_agent
\* assigns session_id, runs the turn (team.run returns or raises) and
\* answers; websocket_endpoint assigns session_id and then either reports
\* an empty team or waits for the first message.  The locals of a handler
\* that has answered are gone.
Serve(p, rq, t, heap, l, cache) ==
    LET heap1 == SetSession(heap, t, SessionFor(rq))
        l1 == [l EXCEPT !.team = t, !.prev_session = heap[t].session_id]
    IN /\ teams' = heap1
       /\ last_ret' = [last_ret EXCEPT ![<<rq.user_id, rq.instance_id>>] = @ \cup {t}]
       /\ IF rq.kind = "chat"
          THEN \/ ChatRunRaises(p, rq, l1, cache)
               \/ ChatAnswers(p, rq, t, heap1, l1, cache)
          ELSE /\ teams_cache' = cache
               /\ loc' = [loc EXCEPT ![p] = l1]
               /\ pc' = [pc EXCEPT ![p] =
                            IF heap1[t].members = <<>> THEN "ws_empty" ELSE "ws_recv"]

\* get_or_create_team up to its first await: the cache lookup.  On a hit
\* the team is returned and the caller goes on at once.
GetOrCreateEnter(p, rq) ==
    LET pr == <<rq.user_id, rq.instance_id>>
        key == CacheKey(rq.user_id, rq.instance_id)
        l == [loc[p] EXCEPT !.need = done_ver[pr],
                            !.expect = last_ret[pr],
                            !.fresh = (store[pr] = NullV /\ key \notin DOMAIN teams_cache)]
    IN IF key \in DOMAIN teams_cache
       THEN Serve(p, rq, teams_cache[key], teams, l, teams_cache)
       ELSE /\ loc' = [loc EXCEPT ![p] = l]
            /\ pc' = [pc EXCEPT ![p] = "g_find"]
            /\ UNCHANGED <<teams, last_ret, teams_cache>>

\* POST /agent/chat arrives
ChatStart(p) ==
    /\ Arrives(p)
    /\ \E pr \in pairs, wn \in WhatsappNumbers :
         LET rq == [kind |-> "chat", user_id |-> pr[1], instance_id |-> pr[2],
                    whatsapp_number |-> wn]
         IN /\ req' = [req EXCEPT ![p] = rq]
            /\ GetOrCreateEnter(p, rq)
    /\ UNCHANGED <<pairs, store, clock, uuid_ctr, done_ver>>

\* /ws/chat is opened: await websocket.accept()
WsStart(p) ==
    /\ Arrives(p)
    /\ \E pr \in pairs :
         req' = [req EXCEPT ![p] = [kind |-> "ws", user_id |-> pr[1],
                                    instance_id |-> pr[2]]]
    /\ pc' = [pc EXCEPT ![p] = "ws_accept"]
    /\ UNCHANGED <<pairs, store, teams_cache, teams, loc, clock, uuid_ctr,
                   done_ver, last_ret>>

\* accept() returned: the endpoint calls get_or_create_team
WsAccepted(p) ==
    /\ pc[p] = "ws_accept"
    /\ GetOrCreateEnter(p, req[p])
    /\ UNCHANGED <<pairs, nreq, store, req, clock, uuid_ctr, done_ver>>

\* await AgentInstance.find_one(...) of get_or_create_team reads the store
GetFind(p) ==
    /\ pc[p] = "g_find"
    /\ loc' = [loc EXCEPT ![p].instance = store[PairOf(p)],
                          ![p].loaded = store[PairOf(p)]]
    /\ pc' = [pc EXCEPT ![p] = "g_found"]
    /\ UNCHANGED <<pairs, nreq, store, teams_cache, teams, req, clock, uuid_ctr,
                   done_ver, last_ret>>

\* AssemblyRaises after the key's cache slot was already filled
AssemblyRaisesCached(p, instance) ==
    /\ HandlerFails(p, "AssemblyError")
    /\ teams' = Append(teams, NewTeam(instance, loc[p].fresh))
    /\ teams_cache' = CachePut(teams_cache, KeyOf(p), Len(teams) + 1)
    /\ UNCHANGED last_ret

\* a constructor called between `members = []` and Team(...) raises (model,
\* tool, storage or team construction): the exception leaves
\* get_or_create_team before the cache assignment
AssemblyRaises(p, instance) ==
    /\ HandlerFails(p, "AssemblyError")
    /\ UNCHANGED <<teams, teams_cache, last_ret>>

\* get_or_create_team from `members = []` to `return team`, then the
\* caller; or the assembly raises
Assemble(p, instance) ==
    \/ AssemblyRaises(p, instance)
    \/ LET heap == Append(teams, NewTeam(instance, loc[p].fresh))
           t == Len(heap)
       IN Serve(p, req[p], t, heap, loc[p], CachePut(teams_cache, KeyOf(p), t))

\* find_one returned: build a default instance and save it, or assemble
GetFound(p) ==
    /\ pc[p] = "g_found"
    /\ IF loc[p].instance = NullV
       THEN LET r == NewAgentInstance([user_id |-> req[p].user_id,
                                       instance_id |-> req[p].instance_id], clock)
            IN /\ loc' = [loc EXCEPT ![p].instance = r.val]
               /\ pc' = [pc EXCEPT ![p] = "g_save"]
               /\ clock' = clock + 1
               /\ UNCHANGED <<teams_cache, teams, last_ret>>
       ELSE /\ Assemble(p, loc[p].instance)
            /\ UNCHANGED clock
    /\ UNCHANGED <<pairs, nreq, store, req, uuid_ctr, done_ver>>

\* Document.save() of an instance: a document without id is inserted, and
\* the unique index on (user_id, instance_id) rejects a second document for
\* the pair; a document with an id replaces the stored one.
SaveFails(instance) ==
    instance.id = 0 /\ store[<<instance.user_id, instance.instance_id>>] # NullV

\* how a save() can end: it writes the document ("ok"), the unique index
\* rejects it, or the storage is unavailable and nothing is written
SaveOutcomes(instance) ==
    IF SaveFails(instance)
    THEN {"DuplicateKeyError", "StorageError"}
    ELSE {"ok", "StorageError"}

\* SaveRaises in a handler that evicts the key before it saves
SaveRaisesAfterEvict(p, e) ==
    /\ HandlerFails(p, e)
    /\ teams_cache' = Evict(teams_cache, KeyOf(p))
    /\ UNCHANGED store

\* await instance.save() raises e: the exception leaves the manager's
\* method at that line and the handler's `except Exception` answers
SaveRaises(p, e) ==
    /\ HandlerFails(p, e)
    /\ UNCHANGED <<store, teams_cache>>

\* await instance.save() of get_or_create_team writes the store
GetSave(p) ==
    /\ pc[p] = "g_save"
    /\ \E out \in SaveOutcomes(loc[p].instance) :
         IF out # "ok"
         THEN SaveRaises(p, out)
         ELSE LET saved == [loc[p].instance EXCEPT !.id = 1]
              IN /\ store' = [store EXCEPT ![PairOf(p)] = saved]
                 /\ loc' = [loc EXCEPT ![p].instance = saved]
                 /\ pc' = [pc EXCEPT ![p] = "g_saved"]
                 /\ UNCHANGED teams_cache
    /\ UNCHANGED <<pairs, nreq, teams, req, clock, uuid_ctr, done_ver, last_ret>>

\* save() returned: assemble the team from the default instance
GetSaved(p) ==
    /\ pc[p] = "g_saved"
    /\ Assemble(p, loc[p].instance)
    /\ UNCHANGED <<pairs, nreq, store, req, clock, uuid_ctr, done_ver>>

\* the websocket loop: receive_text() returned a message, team.run(data)
\* returns or raises
WsMessage(p) ==
    /\ pc[p] = "ws_recv"
    /\ loc[p].runs < MaxMsgs
    /\ \/ /\ loc' = [loc EXCEPT ![p].runs = @ + 1,
                                ![p].run_session = teams[loc[p].team].session_id,
                                ![p].run_stale =
                                    (teams[loc[p].team].ver < done_ver[PairOf(p)])]
          /\ pc' = [pc EXCEPT ![p] = "ws_send"]
       \/ HandlerFails(p, "RunError")
    /\ UNCHANGED <<pairs, nreq, store, teams_cache, teams, req, clock, uuid_ctr,
                   done_ver, last_ret>>

\* send_text(response.content) returned: back to receive_text()
WsSent(p) ==
    /\ pc[p] = "ws_send"
    /\ pc' = [pc EXCEPT ![p] = "ws_recv"]
    /\ UNCHANGED <<pairs, nreq, store, teams_cache, teams, req, loc, clock, uuid_ctr,
                   done_ver, last_ret>>

\* receive_text() raised WebSocketDisconnect, or the empty-team notice was
\* sent and the socket closed
WsClose(p) ==
    /\ pc[p] \in {"ws_recv", "ws_empty"}
    /\ pc' = [pc EXCEPT ![p] = "done"]
    /\ UNCHANGED <<pairs, nreq, store, teams_cache, teams, req, loc, clock, uuid_ctr,
                   done_ver, last_ret>>

\* --------------------------------------------------- PUT /agent/hierarchy
\* update_agent_hierarchy up to its call of update_instance_hierarchy:
\* `if request.agents:` normalizes a non-empty list and leaves
\* agents_normalized None otherwise
UpdatesDict(router_instructions, r) ==
    IF r.ok
    THEN [ok |-> TRUE, n |-> r.n,
          val |-> [router_instructions |-> router_instructions,
                   agents |-> ListV(r.val)]]
    ELSE r

HierarchyUpdates(router_instructions, agents, n) ==
    IF Truthy(agents)
    THEN UpdatesDict(router_instructions, NormalizeAgents(agents.v, n))
    ELSE [ok |-> TRUE, n |-> n,
          val |-> [router_instructions |-> router_instructions, agents |-> NullV]]

\* PUT /agent/hierarchy arrives; the handler runs to the find_one await of
\* update_instance_hierarchy, or fails in normalization
UpdStart(p) ==
    /\ Arrives(p)
    /\ \E pr \in pairs, ri \in {NullV} \cup {StrV(x) : x \in Instructions},
          ags \in AgentLists :
         \E h \in {HierarchyUpdates(ri, ags, uuid_ctr)} :
            /\ req' = [req EXCEPT ![p] =
                          [kind |-> "upd", user_id |-> pr[1], instance_id |-> pr[2],
                           router_instructions |-> ri, agents |-> ags]]
            /\ uuid_ctr' = h.n
            /\ IF h.ok
               THEN /\ loc' = [loc EXCEPT ![p].updates = h.val,
                                          ![p].called_at = clock]
                    /\ pc' = [pc EXCEPT ![p] = "u_find"]
               ELSE HandlerFails(p, h.err)
    /\ UNCHANGED <<pairs, store, teams_cache, teams, clock, done_ver, last_ret>>

\* await AgentInstance.find_one(...) of update_instance_hierarchy
UpdFind(p) ==
    /\ pc[p] = "u_find"
    /\ loc' = [loc EXCEPT ![p].instance = store[PairOf(p)],
                          ![p].loaded = store[PairOf(p)]]
    /\ pc' = [pc EXCEPT ![p] = "u_found"]
    /\ UNCHANGED <<pairs, nreq, store, teams_cache, teams, req, clock, uuid_ctr,
                   done_ver, last_ret>>

\* find_one returned: construct a new instance from the updates, or apply
\* them to the loaded one; then await instance.save()
UpdFound(p) ==
    /\ pc[p] = "u_found"
    /\ IF loc[p].instance = NullV
       THEN LET r == NewAgentInstance(
                        [user_id |-> req[p].user_id,
                         instance_id |-> req[p].instance_id,
                         router_instructions |-> loc[p].updates.router_instructions,
                         agents |-> loc[p].updates.agents], clock)
            IN /\ clock' = clock + 1
               /\ IF r.ok
                  THEN /\ loc' = [loc EXCEPT ![p].instance = r.val]
                       /\ pc' = [pc EXCEPT ![p] = "u_save"]
                  ELSE HandlerFails(p, r.err)
       ELSE /\ loc' = [loc EXCEPT ![p].instance =
                          ApplyUpdates(loc[p].instance, loc[p].updates)]
            /\ pc' = [pc EXCEPT ![p] = "u_save"]
            /\ UNCHANGED clock
    /\ UNCHANGED <<pairs, nreq, store, teams_cache, teams, req, uuid_ctr, done_ver,
                   last_ret>>

\* await instance.save() of update_instance_hierarchy writes the store
UpdSave(p) ==
    /\ pc[p] = "u_save"
    /\ \E out \in SaveOutcomes(loc[p].instance) :
         IF out # "ok"
         THEN SaveRaises(p, out)
         ELSE LET cur == store[PairOf(p)]
                  saved == [loc[p].instance EXCEPT
                               !.id = 1,
                               !.ver = IF cur = NullV THEN 1 ELSE cur.ver + 1]
              IN /\ store' = [store EXCEPT ![PairOf(p)] = saved]
                 /\ loc' = [loc EXCEPT ![p].instance = saved]
                 /\ pc' = [pc EXCEPT ![p] = "u_saved"]
                 /\ UNCHANGED teams_cache
    /\ UNCHANGED <<pairs, nreq, teams, req, clock, uuid_ctr, done_ver, last_ret>>

\* save() returned: evict the cache entry, return True; the route answers
UpdSaved(p) ==
    /\ pc[p] = "u_saved"
    /\ teams_cache' = Evict(teams_cache, KeyOf(p))
    /\ loc' = [q \in Procs |->
                 IF q = p
                 THEN [loc[q] EXCEPT !.had_entry = (KeyOf(p) \in DOMAIN teams_cache),
                                     !.instance = NullV, !.loaded = NullV,
                                     !.updates = NullV,
                                     !.resp = [message |-> "updated"]]
                 ELSE IF req[q].kind \in {"chat", "ws"} /\ PairOf(q) = PairOf(p)
                      THEN [loc[q] EXCEPT !.expect = {}]
                      ELSE loc[q]]
    /\ pc' = [pc EXCEPT ![p] = "done"]
    /\ done_ver' = [done_ver EXCEPT ![PairOf(p)] = Max(@, loc[p].instance.ver)]
    /\ last_ret' = [last_ret EXCEPT ![PairOf(p)] = {}]
    /\ UNCHANGED <<pairs, nreq, store, teams, req, clock, uuid_ctr>>

\* -------------------------------------------- normalize_agent on its own
\* one call of normalize_agent(agent_data), and of HierarchicalAgentConfig
\* on its result as update_agent_hierarchy does
NormalizeOn(p, inputs) ==
    /\ Arrives(p)
    /\ \E a \in inputs :
         \E r \in {normalize_agent(a, Uuid4(UuidsAfter(a, uuid_ctr)))} :
            /\ req' = [req EXCEPT ![p] = [kind |-> "norm", agent_data |-> a]]
            /\ uuid_ctr' = UuidsAfter(a, uuid_ctr)
            /\ loc' = [loc EXCEPT ![p].resp =
                          [norm |-> r, config |-> ConfigOf(r)]]
    /\ pc' = [pc EXCEPT ![p] = "done"]
    /\ UNCHANGED <<pairs, store, teams_cache, teams, clock, done_ver, last_ret>>

NormalizeCall(p) == NormalizeOn(p, RawAgentInputs)

\* one call of normalize_agent on a record whose tools name supported
\* kinds in their various forms
NormalizeKindForms(p) == NormalizeOn(p, KindFormInputs)

\* the response has been sent and the coroutine is gone: the slot is free
Recycle(p) ==
    /\ pc[p] \in {"done", "failed"}
    /\ pc' = [pc EXCEPT ![p] = "idle"]
    /\ req' = [req EXCEPT ![p] = [kind |-> "none"]]
    /\ loc' = [loc EXCEPT ![p] = LocInit]
    /\ UNCHANGED <<pairs, nreq, store, teams_cache, teams, clock, uuid_ctr,
                   done_ver, last_ret>>

\* ---------------------------------------------------- the specification
Next ==
    \E p \in Procs :
        \/ ChatStart(p)
        \/ WsStart(p)
        \/ WsAccepted(p)
        \/ GetFind(p)
        \/ GetFound(p)
        \/ GetSave(p)
        \/ GetSaved(p)
        \/ WsMessage(p)
        \/ WsSent(p)
        \/ WsClose(p)
        \/ UpdStart(p)
        \/ UpdFind(p)
        \/ UpdFound(p)
        \/ UpdSave(p)
        \/ UpdSaved(p)
        \/ Recycle(p)

Spec == Init /\ [][Next]_vars

\* the same service serving the tenants of ColonTenants
ColonSpec == ColonInit /\ [][Next]_vars

\* one call of normalize_agent on any of the inputs
NormNext == NormalizeCall(1)

NormSpec == Init /\ [][NormNext]_vars

\* one call of normalize_agent on tools that name supported kinds
FormsNext == NormalizeKindForms(1)

FormsSpec == Init /\ [][FormsNext]_vars

\* ================================================================ claims
IsGet(p) == req[p].kind \in {"chat", "ws"}
IsUpd(p) == req[p].kind = "upd"

\* C1: a get_or_create_team call that starts after an update of its key has
\* returned never returns a team assembled from the configuration as it was
\* before that update (the team's snapshot version is at least the highest
\* version written by the updates that had returned when the call began).
C1_NoStaleTeamAfterUpdate ==
    \A p \in Procs :
        (IsGet(p) /\ loc[p].team # 0) => teams[loc[p].team].ver >= loc[p].need

\* C2: concurrent get_or_create_team calls for a never-before-seen key
\* assemble exactly one team, and all of them return that team.
C2_SingleAssembly ==
    /\ Cardinality({i \in 1..Len(teams) : teams[i].fresh}) <= 1
    /\ \A p, q \in Procs :
         (/\ IsGet(p) /\ IsGet(q) /\ PairOf(p) = PairOf(q)
          /\ loc[p].fresh /\ loc[q].fresh
          /\ loc[p].team # 0 /\ loc[q].team # 0)
         => loc[p].team = loc[q].team

\* C3: once an update of a key has returned, every later team.run for the
\* key executes on a team assembled from the updated configuration.
C3_NoStaleRun ==
    \A p \in Procs : IsGet(p) => ~loc[p].run_stale

\* C4: when the agents field of a hierarchy update of an existing config is
\* present (any list, the empty list included), the stored agent list after
\* the update's save is exactly the normalized list of the request.
C4_AgentsReplaced ==
    [][\A p \in Procs :
          (/\ IsUpd(p) /\ pc[p] = "u_save" /\ pc'[p] = "u_saved"
           /\ loc[p].loaded # NullV
           /\ req[p].agents.t = "list")
          => store'[PairOf(p)].agents = NormalizeAgents(req[p].agents.v, 0).val]_vars

\* C5: an update of an existing config leaves every field the client did
\* not supply as it was in the stored config: at the update's save the
\* stored router_instructions are unchanged when the request omitted them,
\* the stored agents are unchanged when the request omitted them, and
\* user_id, instance_id and created_at are always unchanged.
C5_UnsuppliedFieldsKept ==
    [][\A p \in Procs :
          (/\ IsUpd(p) /\ pc[p] = "u_save" /\ pc'[p] = "u_saved"
           /\ loc[p].loaded # NullV)
          => LET old == store[PairOf(p)]
                 new == store'[PairOf(p)]
             IN /\ req[p].router_instructions = NullV
                     => new.router_instructions = old.router_instructions
                /\ req[p].agents = NullV => new.agents = old.agents
                /\ new.user_id = old.user_id
                /\ new.instance_id = old.instance_id
                /\ new.created_at = old.created_at]_vars

\* C6: for a key with no stored config, a hierarchy update that supplies
\* only some of the fields does not fail when it constructs the new config
\* (it goes on to persist one whose unsupplied fields hold the defaults).
C6_PartialCreateSucceeds ==
    \A p \in Procs :
        (/\ IsUpd(p)
         /\ loc[p].updates # NullV
         /\ loc[p].updates.router_instructions = NullV \/ loc[p].updates.agents = NullV
         /\ loc[p].instance = NullV)
        => pc[p] # "failed"

\* C7: a get_or_create_team call returns the team that every earlier call
\* for the key returned, when that call had returned before this one began
\* and no update of the key has returned since.
C7_SameTeamAgain ==
    \A p \in Procs :
        (IsGet(p) /\ loc[p].team # 0) => loc[p].expect \subseteq {loc[p].team}

\* C8: at the moment a successful update_instance_hierarchy returns, the
\* teams cache holds no entry for the call's key.
C8_EvictedAtReturn ==
    [][\A p \in Procs :
          (IsUpd(p) /\ pc[p] = "u_saved" /\ pc'[p] = "done")
          => KeyOf(p) \notin DOMAIN teams_cache']_vars

\* an update has returned that found a cache entry for its key
C8_Witness ==
    \E p \in Procs : IsUpd(p) /\ pc[p] = "done" /\ loc[p].had_entry

\* C9: every successful chat call answers with the session id of its own
\* request (whatsapp_number) and its turn ran under that session.
C9_ChatSessionIsOwn ==
    \A p \in Procs :
        (req[p].kind = "chat" /\ pc[p] = "done")
        => /\ loc[p].resp.session_id = StrV(req[p].whatsapp_number)
           /\ loc[p].run_session = StrV(req[p].whatsapp_number)

\* a chat call has answered on a cached team that an earlier caller had
\* left with a different session id
C9_Witness ==
    \E p \in Procs :
        /\ req[p].kind = "chat" /\ pc[p] = "done"
        /\ loc[p].prev_session \notin {NullV, StrV(req[p].whatsapp_number)}

\* the provider the documentation promises for agent record a: the named
\* provider for a known name in any letter case or a typed member, the
\* default gemini for everything else
PromisedProvider(a) ==
    LET v == DictGet(a, "model_provider", Absent)
    IN IF v.t = "ModelProvider" THEN v.v
       ELSE IF v.t = "str" /\ \E m \in DOMAIN ModelProvider : ModelProvider[m] = StrLower(v.v)
            THEN CHOOSE m \in DOMAIN ModelProvider : ModelProvider[m] = StrLower(v.v)
            ELSE "GEMINI"

\* C10: normalize_agent never fails because of the model_provider value,
\* and whenever it returns, model_provider is the promised provider.
C10_ProviderNeverFails ==
    \A p \in Procs :
        (req[p].kind = "norm" /\ pc[p] = "done")
        => LET r == loc[p].resp.norm
           IN /\ ~r.ok => r.err # "AttributeError"
              /\ r.ok => r.val["model_provider"] =
                            EnumV("ModelProvider", PromisedProvider(req[p].agent_data))

\* the member of ToolType that text cs names in some letter case, or "none"
KindNamed(cs) ==
    IF \E m \in DOMAIN ToolType : StrLower(ToolType[m]) = StrLower(cs)
    THEN CHOOSE m \in DOMAIN ToolType : StrLower(ToolType[m]) = StrLower(cs)
    ELSE "none"

\* the tool kind a tools entry names: a bare string, a record's type, or an
\* already typed ToolConfig; "none" for any other entry
KindOfEntry(e) ==
    CASE e.t = "str" -> KindNamed(e.v)
      [] e.t = "ToolType" -> e.v
      [] e.t = "ToolConfig" -> e.type
      [] e.t = "dict" ->
           (IF "type" \notin DOMAIN e.v THEN "none"
            ELSE IF e.v["type"].t = "str" THEN KindNamed(e.v["type"].v)
            ELSE IF e.v["type"].t = "ToolType" THEN e.v["type"].v
            ELSE "none")
      [] OTHER -> "none"

\* the config a tools entry carries (None for a bare string)
ConfigOfEntry(e) ==
    CASE e.t = "dict" -> DictGet(e.v, "config", NullV)
      [] e.t = "ToolConfig" -> e.config
      [] OTHER -> NullV

\* a tools entry that cannot be typed: a known kind with a config that is
\* neither a mapping nor None
MalformedEntry(e) ==
    KindOfEntry(e) # "none" /\ ConfigOfEntry(e).t \notin {"null", "dict"}

\* the recognised entries of a tools list, typed, in their input order
RECURSIVE PromisedTools(_)
PromisedTools(entries) ==
    IF entries = <<>> THEN <<>>
    ELSE LET e == Head(entries)
         IN (IF KindOfEntry(e) # "none" /\ ~MalformedEntry(e)
             THEN <<[t |-> "ToolConfig", type |-> KindOfEntry(e),
                     config |-> ConfigOfEntry(e)]>>
             ELSE <<>>)
            \o PromisedTools(Tail(entries))

\* a finished normalize_agent call whose "tools" was a list (or left out)
NormOnList(p) ==
    /\ req[p].kind = "norm" /\ pc[p] = "done"
    /\ DictGet(req[p].agent_data, "tools", ListV(<<>>)).t = "list"

\* C11: for every tools list, normalize_agent does not raise on account of
\* the list, and the tools it returns are exactly the recognised entries of
\* the list, typed, in their input order (unrecognised kinds are dropped).
C11_RecognisedToolsInOrder ==
    \A p \in Procs :
        NormOnList(p)
        => LET r == loc[p].resp.norm
               entries == DictGet(req[p].agent_data, "tools", ListV(<<>>)).v
           IN /\ ~r.ok => r.err # "ValidationError"
              /\ r.ok => r.val["tools"] = ListV(PromisedTools(entries))

\* the same for the lists that hold no malformed entry
C11_OrderWhenWellFormed ==
    \A p \in Procs :
        (/\ NormOnList(p)
         /\ \A i \in DOMAIN DictGet(req[p].agent_data, "tools", ListV(<<>>)).v :
               ~MalformedEntry(DictGet(req[p].agent_data, "tools", ListV(<<>>)).v[i]))
        => LET r == loc[p].resp.norm
               entries == DictGet(req[p].agent_data, "tools", ListV(<<>>)).v
           IN /\ ~r.ok => r.err # "ValidationError"
              /\ r.ok => r.val["tools"] = ListV(PromisedTools(entries))

\* C12: for every supported kind K and every letter-case variant of its
\* name, the bare string, the record {type: K} and the typed ToolConfig all
\* normalize to the same ToolConfig: type K, no config.
C12_FormsNormalizeEqual ==
    \A p \in Procs :
        (req[p].kind = "norm" /\ pc[p] = "done")
        => LET r == loc[p].resp.norm
               entries == req[p].agent_data["tools"].v
           IN /\ r.ok
              /\ Len(r.val["tools"].v) = Len(entries)
              /\ \A i \in DOMAIN entries :
                    r.val["tools"].v[i] =
                        [t |-> "ToolConfig", type |-> KindOfEntry(entries[i]),
                         config |-> NullV]
              /\ \A i, j \in DOMAIN entries :
                    KindOfEntry(entries[i]) = KindOfEntry(entries[j])
                    => r.val["tools"].v[i] = r.val["tools"].v[j]

\* a call has normalized a lower-case bare string and a typed ToolConfig of
\* the same kind
C12_Witness ==
    \E p \in Procs :
        /\ req[p].kind = "norm" /\ pc[p] = "done"
        /\ loc[p].resp.norm.ok
        /\ LET entries == req[p].agent_data["tools"].v
           IN /\ Len(entries) = 2
              /\ entries[1] = StrV(StrLower(ToolType.YFINANCE))
              /\ entries[2] = [t |-> "ToolConfig", type |-> "YFINANCE", config |-> NullV]

\* an agent entry that cannot become a HierarchicalAgentConfig: no name or
\* no role
MalformedAgent(a) ==
    ~(/\ "name" \in DOMAIN a.v /\ a.v["name"].t = "str"
      /\ "role" \in DOMAIN a.v /\ a.v["role"].t = "str")

\* an agent entry without its malformed tool entries
WithoutMalformedTools(a) ==
    IF "tools" \in DOMAIN a.v /\ a.v["tools"].t = "list"
    THEN DictV(DictSet(a.v, "tools",
                       ListV(SelectSeq(a.v["tools"].v, LAMBDA e : ~MalformedEntry(e)))))
    ELSE a

\* the agents of a request without its malformed agent and tool entries
WellFormedPart(agents) ==
    LET kept == SelectSeq(agents, LAMBDA a : ~MalformedAgent(a))
    IN [i \in DOMAIN kept |-> WithoutMalformedTools(kept[i])]

\* C13: a hierarchy update whose agents hold a malformed tool entry or a
\* malformed agent entry is not aborted by it: validation does not fail the
\* request, and what the call saves is the rest of the request's agents and
\* tools.
C13_MalformedEntryDropped ==
    \A p \in Procs :
        (/\ IsUpd(p)
         /\ req[p].agents.t = "list"
         /\ WellFormedPart(req[p].agents.v) # req[p].agents.v
         /\ req[p].router_instructions # NullV)
        => /\ ~(pc[p] = "failed" /\ loc[p].err = "ValidationError")
           /\ pc[p] = "u_saved"
                => loc[p].instance.agents =
                      NormalizeAgents(WellFormedPart(req[p].agents.v), 0).val

\* C14: every successful update_instance_hierarchy call sets updated_at:
\* the updated_at it stores is not earlier than the time the call was made,
\* and is strictly later than the updated_at stored before, whether the
\* config is created or modified.
C14_UpdatedAtAdvances ==
    [][\A p \in Procs :
          (IsUpd(p) /\ pc[p] = "u_save" /\ pc'[p] = "u_saved")
          => /\ store'[PairOf(p)].updated_at >= loc[p].called_at
             /\ store[PairOf(p)] # NullV
                   => store'[PairOf(p)].updated_at > store[PairOf(p)].updated_at]_vars

\* C15: a save that fails during update_instance_hierarchy fails the whole
\* call with no partial effect: the call raises, and no step of the call up
\* to and including the failure changes the stored config or the teams
\* cache (nothing is evicted or added).
C15_FailedSaveNoEffect ==
    [][\A p \in Procs :
          /\ (/\ req'[p].kind = "upd" /\ pc'[p] # pc[p]
              /\ pc'[p] \in {"u_find", "u_found", "u_save", "failed"})
             => store' = store /\ teams_cache' = teams_cache
          /\ (IsUpd(p) /\ pc[p] = "u_save" /\ pc'[p] \notin {"u_save", "u_saved"})
             => /\ pc'[p] = "failed"
                /\ loc'[p].err \in {"StorageError", "DuplicateKeyError"}]_vars

\* an update of an existing config whose save failed while the key had a
\* cache entry and the update would have changed the stored agents
C15_Witness ==
    \E p \in Procs :
        /\ IsUpd(p) /\ pc[p] = "failed" /\ loc[p].err = "StorageError"
        /\ KeyOf(p) \in DOMAIN teams_cache
        /\ store[PairOf(p)] # NullV
        /\ loc[p].instance # NullV
        /\ loc[p].instance.agents # store[PairOf(p)].agents

\* C16: when the assembly fails inside get_or_create_team the call fails
\* without creating a cache entry: neither the failing step nor any earlier
\* step of the call changes the teams cache, and a call that enters
\* get_or_create_team while the key has no entry goes on to load and build.
C16_FailedAssemblyNoEntry ==
    [][\A p \in Procs :
          /\ (/\ req'[p].kind \in {"chat", "ws"} /\ pc'[p] # pc[p]
              /\ \/ pc'[p] \in {"g_find", "g_found", "g_save", "g_saved"}
                 \/ pc'[p] = "failed" /\ loc'[p].err = "AssemblyError")
             => teams_cache' = teams_cache
          /\ (/\ pc'[p] # pc[p]
              /\ \/ req'[p].kind = "chat" /\ pc[p] = "idle"
                 \/ req'[p].kind = "ws" /\ pc[p] = "ws_accept"
              /\ CacheKey(req'[p].user_id, req'[p].instance_id) \notin DOMAIN teams_cache)
             => pc'[p] = "g_find"]_vars

\* a call whose assembly of a config with agents failed, the key being
\* without a cache entry afterwards
C16_Witness ==
    \E p \in Procs :
        /\ IsGet(p) /\ pc[p] = "failed" /\ loc[p].err = "AssemblyError"
        /\ loc[p].instance.agents # <<>>
        /\ KeyOf(p) \notin DOMAIN teams_cache

\* C17: when team.run fails in a chat call only that interaction fails: in
\* the failing step the stored config does not change, and afterwards the
\* key's cache entry is present and holds the team the call ran.
C17_RunFailureKeepsCache ==
    [][\A p \in Procs :
          (/\ req'[p].kind = "chat" /\ pc[p] # "failed" /\ pc'[p] = "failed"
           /\ loc'[p].err = "RunError")
          => /\ store' = store
             /\ CacheKey(req'[p].user_id, req'[p].instance_id) \in DOMAIN teams_cache'
             /\ teams_cache'[CacheKey(req'[p].user_id, req'[p].instance_id)]
                   = loc'[p].team]_vars

\* a chat call whose team.run failed on a team it got from the cache, the
\* team having served an earlier caller
C17_Witness ==
    \E p \in Procs :
        /\ req[p].kind = "chat" /\ pc[p] = "failed" /\ loc[p].err = "RunError"
        /\ loc[p].prev_session # NullV
        /\ teams_cache[KeyOf(p)] = loc[p].team

\* C18: on a cache miss for a key whose find_one found no config, the call
\* persists the default config (default instructions, no agents), is not
\* failed by a record another call has put there meanwhile, and returns and
\* caches a team with zero members; on a miss that found a config the call
\* never writes the store.
C18_FirstContactProvisioned ==
    [][\A p \in Procs :
          /\ (IsGet(p) /\ pc[p] = "g_save" /\ pc'[p] # "g_save")
             => \/ pc'[p] = "failed" /\ loc'[p].err = "StorageError"
                \/ /\ pc'[p] = "g_saved"
                   /\ store'[PairOf(p)].router_instructions = DefaultRouterInstructions
                   /\ store'[PairOf(p)].agents = <<>>
          /\ (IsGet(p) /\ pc[p] = "g_saved" /\ pc'[p] # "g_saved"
              /\ loc'[p].err # "AssemblyError")
             => /\ teams'[loc'[p].team].members = <<>>
                /\ teams_cache'[KeyOf(p)] = loc'[p].team
          /\ (IsGet(p) /\ pc[p] = "g_found" /\ pc'[p] # "g_found"
              /\ loc[p].instance # NullV)
             => store' = store]_vars

\* the tool class bound for a ToolConfig of the given type
ToolClassOf(type) ==
    IF type = "DUCKDUCKGO" THEN "DuckDuckGoTools" ELSE "YFinanceTools"

\* C19: the team get_or_create_team builds on a miss mirrors the snapshot
\* it was built from: one member per agent in order (same name and role),
\* one tool binding per ToolConfig of the agent in order, and the
\* snapshot's router_instructions as instructions.
C19_TeamMirrorsSnapshot ==
    [][\A p \in Procs :
          (/\ IsGet(p) /\ pc[p] \in {"g_found", "g_saved"} /\ pc'[p] # pc[p]
           /\ Len(teams') = Len(teams) + 1)
          => LET tm == teams'[Len(teams')]
                 snap == loc[p].instance
             IN /\ tm.instructions = snap.router_instructions
                /\ Len(tm.members) = Len(snap.agents)
                /\ \A i \in DOMAIN snap.agents :
                      /\ tm.members[i].name = snap.agents[i].name
                      /\ tm.members[i].role = snap.agents[i].role
                      /\ Len(tm.members[i].tools) = Len(snap.agents[i].tools)
                      /\ \A j \in DOMAIN snap.agents[i].tools :
                            tm.members[i].tools[j].cls =
                                ToolClassOf(snap.agents[i].tools[j].type)]_vars

\* a team has been built from a config with two agents, the first of them
\* with two tools of different kinds
C19_Witness ==
    \E i \in DOMAIN teams :
        /\ Len(teams[i].members) = 2
        /\ Len(teams[i].members[1].tools) = 2
        /\ teams[i].members[1].tools[1].cls # teams[i].members[1].tools[2].cls

\* C20: two concurrent updates of an existing key, one supplying only
\* agents and the other only router_instructions, do not lose each other's
\* write: once both have returned (and no other request has arrived), the
\* stored config holds the agents of the one and the router_instructions of
\* the other.
C20_NoLostUpdate ==
    \A p, q \in Procs :
        (/\ nreq = 2
         /\ IsUpd(p) /\ IsUpd(q) /\ pc[p] = "done" /\ pc[q] = "done"
         /\ PairOf(p) = PairOf(q)
         /\ Truthy(req[p].agents) /\ req[p].router_instructions = NullV
         /\ req[q].agents = NullV /\ req[q].router_instructions # NullV)
        => /\ store[PairOf(p)].agents = NormalizeAgents(req[p].agents.v, 0).val
           /\ store[PairOf(p)].router_instructions = req[q].router_instructions.v

\* C21: first-contact calls on a key never fail because of each other: a
\* get_or_create_team or update_instance_hierarchy call whose find_one
\* found no config for the key is not failed by the record another such
\* call has stored meanwhile.
C21_FirstContactNeverFails ==
    \A p \in Procs :
        (/\ IsGet(p) \/ IsUpd(p)
         /\ pc[p] = "failed"
         /\ loc[p].loaded = NullV)
        => loc[p].err # "DuplicateKeyError"

\* C22: every turn a websocket connection runs executes with the team's
\* session_id equal to the connection's own playground session id.
C22_WsSessionIsOwn ==
    \A p \in Procs :
        (req[p].kind = "ws" /\ loc[p].runs >= 1)
        => loc[p].run_session =
              StrV(PlaygroundSession(req[p].user_id, req[p].instance_id))

\* C23: two distinct (user_id, instance_id) pairs never share a cache
\* entry: the team a get_or_create_team call returns was built from the
\* config of the call's own pair, and the return of an update of one pair
\* leaves the cache entry and the stored config of every other pair as they
\* were.
C23_TenantIsolation ==
    [][\A p \in Procs :
          /\ (IsGet(p) /\ loc'[p].team # 0 /\ req'[p] = req[p])
             => /\ teams'[loc'[p].team].user_id = req[p].user_id
                /\ teams'[loc'[p].team].instance_id = req[p].instance_id
          /\ (IsUpd(p) /\ pc[p] = "u_saved" /\ pc'[p] = "done")
             => \A pr \in pairs \ {PairOf(p)} :
                   /\ store'[pr] = store[pr]
                   /\ CacheKey(pr[1], pr[2]) \in DOMAIN teams_cache
                         => /\ CacheKey(pr[1], pr[2]) \in DOMAIN teams_cache'
                            /\ teams_cache'[CacheKey(pr[1], pr[2])]
                                  = teams_cache[CacheKey(pr[1], pr[2])]]_vars
====
